---- MODULE Spec2Model ----
(***************************************************************************)
(* solid-whenever: check / when / every / whenify over a reactive host.    *)
(*                                                                         *)
(* JavaScript values are records [type, n, s, cl]: the typeof tag, an      *)
(* integer payload, a string payload and a tuple of captured values (the   *)
(* elements of an array, the environment of a closure).  Every operator    *)
(* that models a JavaScript function returns a completion record           *)
(* [st, val, ev]: "ok" or "throw", the value returned or thrown, and the   *)
(* events (producer reads, user-function calls, resolutions) the call      *)
(* performed, in execution order.                                          *)
(***************************************************************************)
EXTENDS Integers, Sequences, FiniteSets, TLC

VARIABLES
    sig,      \* the value each signal of the host holds
    gate,     \* the function the caller holds: a gate, a conjunction, or undefined
    given,    \* how the caller built it: [op, in]
    written,  \* a signal was written since it was built
    last,     \* the last call the caller made and its completion
    inst,     \* the computations of the host built through whenify
    obs       \* what the caller of a computation has written to its input and read
              \* back, and the arrays allocated for the caller of a conjunction

vars == <<sig, gate, given, written, last, inst, obs>>

(***************************************************************************)
(* Bounds of the model.                                                    *)
(***************************************************************************)
MaxArgs == 2
MaxEvery == 3
MaxRuns == 3
MaxChanges == 3

(***************************************************************************)
(* Values.                                                                 *)
(***************************************************************************)
Val(t, n, s, cl) == [n |-> n, s |-> s, cl |-> cl, type |-> t]

Undefined == Val("undefined", 0, "", <<>>)
Null == Val("null", 0, "", <<>>)
Bool(b) == Val("boolean", 0, IF b THEN "true" ELSE "false", <<>>)
Num(n) == Val("number", n, "fin", <<>>)
NegZero == Val("number", 0, "-0", <<>>)
NaN == Val("number", 0, "NaN", <<>>)
Infinity == Val("number", 1, "Infinity", <<>>)
NegInfinity == Val("number", -1, "Infinity", <<>>)
Str(s) == Val("string", 0, s, <<>>)
BigInt(n) == Val("bigint", n, "", <<>>)
Sym(s) == Val("symbol", 0, s, <<>>)
Obj(class, id) == Val("object", id, class, <<>>)
Arr(elems) == Val("object", 0, "Array", elems)
Fn(name) == Val("function", 0, name, <<>>)
Closure(name, env) == Val("function", 0, name, env)

\* The boolean coercion applied by `value ? ... : ...` and `!_value`.
ToBoolean(x) ==
    CASE x.type = "undefined" -> FALSE
      [] x.type = "null" -> FALSE
      [] x.type = "boolean" -> x.s = "true"
      [] x.type = "number" -> ~(x.s = "NaN" \/ x.s = "-0" \/ (x.s = "fin" /\ x.n = 0))
      [] x.type = "string" -> x.s # ""
      [] x.type = "bigint" -> x.n # 0
      [] OTHER -> TRUE

(***************************************************************************)
(* Completions and events.                                                 *)
(***************************************************************************)
Ok(v, ev) == [ev |-> ev, st |-> "ok", val |-> v]
Throw(v, ev) == [ev |-> ev, st |-> "throw", val |-> v]
Ev(e, f, args, out, v) == [val |-> v, e |-> e, f |-> f, args |-> args, out |-> out]

\* r2 executed after the events ev already performed.
After(ev, r) == [r EXCEPT !.ev = ev \o r.ev]

(***************************************************************************)
(* Signals of the host and the user functions the tests pass in.           *)
(***************************************************************************)
SigNames == {"a", "b", "c"}

CallbackNames ==
    {"cb_id", "cb_double", "cb_void", "cb_throw", "cb_zero", "cb_false", "cb_empty",
     "cb_feature"}
FallbackNames == {"fb_m1", "fb_void", "fb_throw"}

\* The body of a user function: <<"return" | "throw", value>>.
UserBody(name, args) ==
    CASE name = "cb_id" -> <<"return", IF Len(args) >= 1 THEN args[1] ELSE Undefined>>
      [] name = "cb_double" ->
            <<"return", IF Len(args) >= 1 /\ args[1].type = "number" /\ args[1].s = "fin"
                        THEN Num(2 * args[1].n) ELSE NaN>>
      [] name = "cb_void" -> <<"return", Undefined>>
      [] name = "cb_throw" -> <<"throw", Str("Test error")>>
      [] name = "cb_zero" -> <<"return", Num(0)>>
      [] name = "cb_false" -> <<"return", Bool(FALSE)>>
      [] name = "cb_empty" -> <<"return", Str("")>>
      [] name = "cb_feature" ->
            <<"return", IF Len(args) >= 1 /\ args[1].type = "object" /\ args[1].n = 1
                        THEN Str("Admin with feature") ELSE Str("Admin without feature")>>
      [] name = "fb_m1" -> <<"return", Num(-1)>>
      [] name = "fb_void" -> <<"return", Undefined>>
      [] name = "fb_throw" -> <<"throw", Str("Fallback error")>>
      [] name = "thrower" -> <<"throw", Str("Accessor error")>>

UserNames == CallbackNames \cup FallbackNames \cup {"thrower"}

\* The functions the tests hand to whenify in place of a host constructor:
\* fn => fn(), fn => { fn(); return 'effect-result' }, and one that keeps fn
\* for later and returns nothing.
MockNames == {"mock_call", "mock_effect", "mock_defer"}

(***************************************************************************)
(* The library.                                                            *)
(***************************************************************************)
RECURSIVE Invoke(_, _)

\* Faulty variant: a function returned by a producer is invoked in turn.
RECURSIVE resolve_deep(_)
resolve_deep(value) ==
    IF value.type # "function" THEN Ok(value, <<>>)
    ELSE LET r == Invoke(value, <<>>) IN
         IF r.st = "throw" THEN r ELSE After(r.ev, resolve_deep(r.val))

resolve(value) ==
    IF value.type # "function" THEN Ok(value, <<>>) ELSE Invoke(value, <<>>)

\* let i = 0; () => values[i++ % values.length]: a producer that returns
\* another value at each invocation; its closure holds the values to come.
Cycle(values) == Closure("cycle", values)

\* The producer x as one invocation leaves it.
Again(x) ==
    IF x.type = "function" /\ x.s = "cycle" THEN Cycle(Tail(x.cl) \o <<Head(x.cl)>>) ELSE x

RECURSIVE Advance(_, _)
Advance(x, n) == IF n = 0 THEN x ELSE Advance(Again(x), n - 1)

\* Faulty variant: resolve(accessor) ? callback(resolve(accessor)) : fallback(),
\* the input resolved once for the test and once more for the callback.
check_twice(accessor, callback, fallback) ==
    LET r == resolve(accessor) IN
    IF r.st = "throw" THEN r
    ELSE LET ev == Append(r.ev, Ev("resolved", "check", <<>>, "return", r.val)) IN
         IF ToBoolean(r.val)
         THEN LET r2 == resolve(Again(accessor)) IN
              IF r2.st = "throw" THEN After(ev, r2)
              ELSE After(ev \o r2.ev, Invoke(callback, <<r2.val>>))
         ELSE IF ToBoolean(fallback) THEN After(ev, Invoke(fallback, <<>>))
         ELSE Ok(Undefined, ev)

\* Faulty variant: an error of the producer is caught and taken for a falsy input.
check_swallow(accessor, callback, fallback) ==
    LET r == resolve(accessor) IN
    IF r.st = "throw"
    THEN IF ToBoolean(fallback) THEN After(r.ev, Invoke(fallback, <<>>)) ELSE Ok(Undefined, r.ev)
    ELSE LET ev == Append(r.ev, Ev("resolved", "check", <<>>, "return", r.val)) IN
         IF ToBoolean(r.val) THEN After(ev, Invoke(callback, <<r.val>>))
         ELSE IF ToBoolean(fallback) THEN After(ev, Invoke(fallback, <<>>))
         ELSE Ok(Undefined, ev)

\* Faulty variant: (value && callback(value)) || (fallback ? fallback() : undefined).
check_or(accessor, callback, fallback) ==
    LET r == resolve(accessor) IN
    IF r.st = "throw" THEN r
    ELSE LET ev == Append(r.ev, Ev("resolved", "check", <<>>, "return", r.val))
             rc == IF ToBoolean(r.val) THEN After(ev, Invoke(callback, <<r.val>>))
                   ELSE Ok(r.val, ev)
         IN IF rc.st = "throw" \/ ToBoolean(rc.val) THEN rc
            ELSE IF ToBoolean(fallback) THEN After(rc.ev, Invoke(fallback, <<>>))
            ELSE Ok(Undefined, rc.ev)

\* Faulty variant: an error of a branch is caught and undefined returned.
check_branch_caught(accessor, callback, fallback) ==
    LET r == resolve(accessor) IN
    IF r.st = "throw" THEN r
    ELSE LET ev == Append(r.ev, Ev("resolved", "check", <<>>, "return", r.val))
             b == IF ToBoolean(r.val) THEN After(ev, Invoke(callback, <<r.val>>))
                  ELSE IF ToBoolean(fallback) THEN After(ev, Invoke(fallback, <<>>))
                  ELSE Ok(Undefined, ev)
         IN IF b.st = "throw" THEN Ok(Undefined, b.ev) ELSE b

\* Faulty variant: tests `value != null` instead of the value's truthiness.
check_nullish(accessor, callback, fallback) ==
    LET r == resolve(accessor) IN
    IF r.st = "throw" THEN r
    ELSE LET ev == Append(r.ev, Ev("resolved", "check", <<>>, "return", r.val)) IN
         IF r.val.type \notin {"undefined", "null"} THEN After(ev, Invoke(callback, <<r.val>>))
         ELSE IF ToBoolean(fallback) THEN After(ev, Invoke(fallback, <<>>))
         ELSE Ok(Undefined, ev)

\* Faulty variant: calls callback() without the resolved value.
check_noarg(accessor, callback, fallback) ==
    LET r == resolve(accessor) IN
    IF r.st = "throw" THEN r
    ELSE LET ev == Append(r.ev, Ev("resolved", "check", <<>>, "return", r.val)) IN
         IF ToBoolean(r.val) THEN After(ev, Invoke(callback, <<>>))
         ELSE IF ToBoolean(fallback) THEN After(ev, Invoke(fallback, <<>>))
         ELSE Ok(Undefined, ev)

\* Faulty variant: calls fallback(value).
check_fbvalue(accessor, callback, fallback) ==
    LET r == resolve(accessor) IN
    IF r.st = "throw" THEN r
    ELSE LET ev == Append(r.ev, Ev("resolved", "check", <<>>, "return", r.val)) IN
         IF ToBoolean(r.val) THEN After(ev, Invoke(callback, <<r.val>>))
         ELSE IF ToBoolean(fallback) THEN After(ev, Invoke(fallback, <<r.val>>))
         ELSE Ok(Undefined, ev)

\* Faulty variant: no return after the callback, so the fallback runs as well.
check_fallthrough(accessor, callback, fallback) ==
    LET r == resolve(accessor) IN
    IF r.st = "throw" THEN r
    ELSE LET ev == Append(r.ev, Ev("resolved", "check", <<>>, "return", r.val))
             c == IF ToBoolean(r.val) THEN After(ev, Invoke(callback, <<r.val>>))
                  ELSE Ok(Undefined, ev)
         IN IF c.st = "throw" THEN c
            ELSE IF ToBoolean(fallback) THEN After(c.ev, Invoke(fallback, <<>>))
            ELSE Ok(Undefined, c.ev)

check(accessor, callback, fallback) ==
    LET r == resolve(accessor) IN
    IF r.st = "throw" THEN r
    ELSE LET ev == Append(r.ev, Ev("resolved", "check", <<>>, "return", r.val)) IN
         IF ToBoolean(r.val) THEN After(ev, Invoke(callback, <<r.val>>))
         ELSE IF ToBoolean(fallback) THEN After(ev, Invoke(fallback, <<>>))
         ELSE Ok(Undefined, ev)

\* value => callback(value, ...args)
when_cb(callback, args) == Closure("when_cb", <<callback>> \o args)

\* Faulty variant: () => fallback(), the arguments forgotten.
when_fb_noargs(fallback, args) ==
    IF ToBoolean(fallback) THEN Closure("when_fb", <<fallback>>) ELSE Undefined

\* fallback ? () => fallback(...args) : undefined
when_fb(fallback, args) ==
    IF ToBoolean(fallback) THEN Closure("when_fb", <<fallback>> \o args) ELSE Undefined

\* Faulty variant: () => check(accessor, callback, fallback), the arguments forgotten.
gated_noargs(accessor, callback, fallback, args) ==
    check(accessor, when_cb(callback, <<>>), when_fb(fallback, <<>>))

\* The body of the function `when` returns.
gated(accessor, callback, fallback, args) ==
    check(accessor, when_cb(callback, args), when_fb(fallback, args))

\* Faulty variant: resolves the input once, when the gate is built.
when_cached(accessor, callback, fallback) ==
    Closure("when", <<resolve(accessor).val, callback, fallback>>)

when(accessor, callback, fallback) == Closure("when", <<accessor, callback, fallback>>)

RECURSIVE every_loop(_, _, _, _)
every_loop(accessors, i, values, ev) ==
    IF ~(i < Len(accessors)) THEN Ok(Arr(values), ev)
    ELSE LET r == resolve(accessors[i + 1]) IN
         IF r.st = "throw" THEN After(ev, r)
         ELSE LET ev1 == ev \o r.ev \o <<Ev("resolved", "every", <<Num(i)>>, "return", r.val)>> IN
              IF ~ToBoolean(r.val) THEN Ok(Undefined, ev1)
              ELSE every_loop(accessors, i + 1, [values EXCEPT ![i + 1] = r.val], ev1)

\* Faulty variant: an input that throws is taken for a falsy one.
RECURSIVE every_loop_caught(_, _, _, _)
every_loop_caught(accessors, i, values, ev) ==
    IF ~(i < Len(accessors)) THEN Ok(Arr(values), ev)
    ELSE LET r == resolve(accessors[i + 1]) IN
         IF r.st = "throw" THEN Ok(Undefined, ev \o r.ev)
         ELSE LET ev1 == ev \o r.ev \o <<Ev("resolved", "every", <<Num(i)>>, "return", r.val)>> IN
              IF ~ToBoolean(r.val) THEN Ok(Undefined, ev1)
              ELSE every_loop_caught(accessors, i + 1, [values EXCEPT ![i + 1] = r.val], ev1)

every_callback_caught(accessors) ==
    every_loop_caught(accessors, 0, [k \in 1..Len(accessors) |-> Undefined], <<>>)

\* Faulty variant: the loop starts at index 1.
every_callback_from1(accessors) ==
    every_loop(accessors, 1, [k \in 1..Len(accessors) |-> Undefined], <<>>)

\* Faulty variant: `if (!accessors.length) return undefined` before the loop.
every_callback_empty(accessors) ==
    IF Len(accessors) = 0 THEN Ok(Undefined, <<>>)
    ELSE every_loop(accessors, 0, [k \in 1..Len(accessors) |-> Undefined], <<>>)

\* Faulty variant: every input is resolved, and the falsy ones are looked at afterwards.
RECURSIVE every_loop_all(_, _, _, _, _)
every_loop_all(accessors, i, values, ev, all) ==
    IF ~(i < Len(accessors)) THEN Ok(IF all THEN Arr(values) ELSE Undefined, ev)
    ELSE LET r == resolve(accessors[i + 1]) IN
         IF r.st = "throw" THEN After(ev, r)
         ELSE every_loop_all(accessors, i + 1, [values EXCEPT ![i + 1] = r.val],
                             ev \o r.ev \o <<Ev("resolved", "every", <<Num(i)>>, "return", r.val)>>,
                             all /\ ToBoolean(r.val))

every_callback_noshort(accessors) ==
    every_loop_all(accessors, 0, [k \in 1..Len(accessors) |-> Undefined], <<>>, TRUE)

\* The function `callback` inside every: new Array(n), then the loop.
every_callback(accessors) ==
    every_loop(accessors, 0, [k \in 1..Len(accessors) |-> Undefined], <<>>)

\* Faulty variant: the inputs are resolved once, when every is called.
every_cached(accessors) ==
    Closure("every", [k \in 1..Len(accessors) |-> resolve(accessors[k]).val])

every(accessors) == Closure("every", accessors)

Invoke(f, args) ==
    IF f.type # "function" THEN Throw(Str("TypeError"), <<>>)
    ELSE CASE f.s \in SigNames -> Ok(sig[f.s], <<Ev("read", f.s, <<>>, "return", sig[f.s])>>)
           [] f.s = "when" -> gated(f.cl[1], f.cl[2], f.cl[3], args)
           [] f.s = "when_cb" ->
                Invoke(f.cl[1], <<IF Len(args) >= 1 THEN args[1] ELSE Undefined>> \o Tail(f.cl))
           [] f.s = "when_fb" -> Invoke(f.cl[1], Tail(f.cl))
           [] f.s = "every" -> every_callback(f.cl)
           [] f.s = "thunk" -> Ok(f.cl[1], <<Ev("read", "thunk", <<>>, "return", f.cl[1])>>)
           [] f.s = "cycle" -> Ok(f.cl[1], <<Ev("read", "cycle", <<>>, "return", f.cl[1])>>)
           [] f.s \in UserNames ->
                LET out == UserBody(f.s, args) IN
                [ev |-> <<Ev("call", f.s, args, out[1], out[2])>>,
                 st |-> IF out[1] = "throw" THEN "throw" ELSE "ok",
                 val |-> out[2]]
           [] f.s = "isAdmin" ->
                LET u == f.cl[1] IN
                Ok(Bool(u.type = "object" /\ u.s = "User" /\ u.n = 1), <<>>)
           [] f.s = "nested" ->
                LET u == IF Len(args) >= 1 THEN args[1] ELSE Undefined
                    r == check(Closure("isAdmin", <<u>>),
                               when(Fn("b"), Fn("cb_feature"), Undefined), Undefined)
                IN After(<<Ev("call", "nested", args,
                              IF r.st = "throw" THEN "throw" ELSE "return", r.val)>>, r)
           [] f.s \in MockNames ->
                LET inner == IF f.s = "mock_defer" THEN Ok(Undefined, <<>>)
                             ELSE Invoke(IF Len(args) >= 1 THEN args[1] ELSE Undefined, <<>>)
                    r == IF f.s = "mock_effect" /\ inner.st = "ok"
                         THEN Ok(Str("effect-result"), inner.ev)
                         ELSE inner
                IN After(<<Ev("call", f.s, args,
                              IF r.st = "throw" THEN "throw" ELSE "return", r.val)>>, r)

(***************************************************************************)
(* Inputs.                                                                 *)
(***************************************************************************)
FalsyVals == {Bool(FALSE), Num(0), NegZero, BigInt(0), Str(""), Null, Undefined, NaN}

TruthyVals ==
    {Bool(TRUE), Num(1), Num(-1), Str("hello"), Str(" "), Str("0"), Str("false"),
     Obj("Array", 1), Obj("Object", 2), Obj("Date", 3), Obj("RegExp", 4),
     Obj("Map", 5), Obj("Set", 6), Sym("test"), BigInt(1), Infinity, NegInfinity}

PlainVals == FalsyVals \cup TruthyVals

\* What a signal can hold.
SigVals == {Null, Num(5), Str("x")}

\* () => v
Thunk(v) == Closure("thunk", <<v>>)

Producers == {Fn(s) : s \in SigNames} \cup {Fn("thrower")}
CheckInputs == PlainVals \cup Producers \cup {Thunk(v) : v \in PlainVals}
Callbacks == {Fn("cb_id"), Fn("cb_double"), Fn("cb_void"), Fn("cb_throw")}
Fallbacks == {Fn(n) : n \in FallbackNames} \cup {Undefined}

\* Extra call-time arguments of a gated function.
ArgVals == {Num(7), Str("t")}
RECURSIVE SeqsUpTo(_, _)
SeqsUpTo(S, n) ==
    IF n = 0 THEN {<<>>}
    ELSE LET shorter == SeqsUpTo(S, n - 1) IN
         shorter \cup {Append(q, x) : q \in {p \in shorter : Len(p) = n - 1}, x \in S}

ArgLists == SeqsUpTo(ArgVals, MaxArgs)

\* Inputs of every.
EveryVals == {Num(0), Obj("Object", 2), Fn("a"), Fn("b")}
EveryLists == SeqsUpTo(EveryVals, MaxEvery)

\* Inputs of a gate: plain values, producers and conjunctions.
GateInputs ==
    FalsyVals \cup {Bool(TRUE), Num(1), Obj("Object", 2)} \cup Producers
    \cup {Thunk(v) : v \in FalsyVals}
    \cup {every(<<>>), every(<<Fn("a"), Fn("b")>>), every(<<Fn("a"), Num(1), Fn("b")>>)}

GateCallbacks == {Fn("cb_id"), Fn("cb_throw")}
GateFallbacks == {Fn("fb_m1"), Fn("fb_throw"), Undefined}

NotBuilt == [op |-> "none", in |-> <<>>]

Idle == [args |-> <<>>, r |-> Ok(Undefined, <<>>), op |-> "none", fn |-> Undefined]

\* Nothing written, nothing read back, no branch counted.
NoObs ==
    [ins |-> <<>>, runs |-> <<>>, cb |-> 0, fb |-> 0, read |-> <<>>, order |-> <<>>,
     heap |-> <<>>, refs |-> <<>>]

(***************************************************************************)
(* The host: computations that run a compute function with the value it    *)
(* returned last, and run it again after a signal it read was written.     *)
(***************************************************************************)
Insts == {1, 2}

IsBranchCall(e) == e.e = "call" /\ e.f \in CallbackNames \cup FallbackNames
IsCallbackCall(e) == e.e = "call" /\ e.f \in CallbackNames
IsFallbackCall(e) == e.e = "call" /\ e.f \in FallbackNames
IsRead(e) == e.e = "read"
IsEveryResolved(e) == e.e = "resolved" /\ e.f = "every"

BranchCalls(r) == SelectSeq(r.ev, IsBranchCall)
CallbackCalls(r) == SelectSeq(r.ev, IsCallbackCall)
FallbackCalls(r) == SelectSeq(r.ev, IsFallbackCall)

\* Which branch a run executed and how it ended.
NoBranch == [val |-> Undefined, out |-> "", ran |-> "none"]
BranchOutcome(r) ==
    IF BranchCalls(r) = <<>> THEN NoBranch
    ELSE [val |-> BranchCalls(r)[1].val,
          out |-> BranchCalls(r)[1].out,
          ran |-> IF IsCallbackCall(BranchCalls(r)[1]) THEN "cb" ELSE "fb"]

NoRun == Ok(Undefined, <<>>)

NoInst ==
    [given |-> <<>>, r |-> NoRun, value |-> Undefined, fn |-> Undefined, runs |-> 0,
     status |-> "none", kind |-> "", handle |-> Undefined, deps |-> {}, pending |-> FALSE,
     before |-> NoBranch, after |-> NoBranch]

\* The signals a run read.
Deps(r) == {r.ev[j].f : j \in {k \in 1..Len(r.ev) : IsRead(r.ev[k]) /\ r.ev[k].f \in SigNames}}

\* One run of a computation: fn(value), the result kept as the next value.
runComputation(c) ==
    LET r == Invoke(c.fn, <<c.value>>) IN
    [c EXCEPT !.value = IF r.st = "ok" THEN r.val ELSE @,
              !.deps = Deps(r),
              !.pending = FALSE,
              !.runs = @ + 1,
              !.r = r,
              !.before = c.after,
              !.after = BranchOutcome(r)]

\* The accessor createMemo returns; the other constructors return nothing.
MemoHandle == Fn("memo")
HandleOf(kind) == IF kind = "memo" THEN MemoHandle ELSE Undefined

\* Faulty variant: the computation starts from null, createMemo(fn, null).
createComputation_seeded(kind, fn) ==
    LET c == [NoInst EXCEPT !.status = "active", !.kind = kind, !.fn = fn, !.value = Null,
                            !.handle = HandleOf(kind)] IN
    IF kind = "effect" THEN [c EXCEPT !.pending = TRUE] ELSE runComputation(c)

\* createMemo, createComputed and createRenderEffect run fn at once;
\* createEffect leaves the first run to the scheduler.
createComputation(kind, fn) ==
    LET c == [NoInst EXCEPT !.status = "active", !.kind = kind, !.fn = fn,
                            !.handle = HandleOf(kind)] IN
    IF kind = "effect" THEN [c EXCEPT !.pending = TRUE] ELSE runComputation(c)

\* Faulty variant: fn is called only when the input is truthy.
whenified_guarded(fn, accessor, callback, fallback) ==
    LET r == resolve(accessor) IN
    IF r.st = "ok" /\ ~ToBoolean(r.val) THEN Ok(Undefined, r.ev)
    ELSE Invoke(fn, <<when(accessor, callback, fallback)>>)

\* The function whenify(fn) returns, for an fn that is a plain function.
whenified(fn, accessor, callback, fallback) ==
    Invoke(fn, <<when(accessor, callback, fallback)>>)

\* Faulty variant: fn is called, but the gated function is what is returned.
whenify_gate_returned(kind, accessor, callback, fallback) ==
    [createComputation(kind, when(accessor, callback, fallback))
        EXCEPT !.handle = when(accessor, callback, fallback)]

\* Faulty variant: fn(() => when(accessor, callback, fallback)()), the arguments
\* the host passes to the compute function withheld from the gated function.
whenify_unary(kind, accessor, callback, fallback) ==
    createComputation(kind, when(accessor, when_cb(callback, <<>>), when_fb(fallback, <<>>)))

\* Faulty variant: fn(when(accessor, callback)), the fallback dropped.
whenify_nofallback(kind, accessor, callback, fallback) ==
    createComputation(kind, when(accessor, callback, Undefined))

\* whenify(fn)(accessor, callback, fallback), fn one of the host's constructors.
whenify(kind, accessor, callback, fallback) ==
    createComputation(kind, when(accessor, callback, fallback))

\* The exported wrappers.
whenMemo(accessor, callback, fallback) == whenify("memo", accessor, callback, fallback)
whenEffect(accessor, callback, fallback) == whenify("effect", accessor, callback, fallback)

\* Faulty variant: whenRenderEffect = whenify(createEffect).
whenRenderEffect_deferred(accessor, callback, fallback) ==
    whenify("effect", accessor, callback, fallback)

whenRenderEffect(accessor, callback, fallback) ==
    whenify("render", accessor, callback, fallback)
whenComputed(accessor, callback, fallback) ==
    whenify("computed", accessor, callback, fallback)

(***************************************************************************)
(* Direct use of check, when and every.                                    *)
(***************************************************************************)
\* The signals the direct calls read and write.
CoreSigs == {"a", "b"}

InitCore ==
    /\ sig \in [SigNames -> {Null}]
    /\ gate = Undefined
    /\ given = NotBuilt
    /\ written = FALSE
    /\ last = Idle
    /\ inst = [i \in Insts |-> NoInst]
    /\ obs = NoObs

SetSignal(s, v) ==
    /\ sig[s] # v
    /\ sig' = [sig EXCEPT ![s] = v]
    /\ written' = (gate # Undefined)
    /\ last' = Idle
    /\ UNCHANGED <<gate, given, inst, obs>>

DoCheck(accessor, callback, fallback) ==
    /\ gate = Undefined /\ last = Idle
    /\ last' = [args |-> <<accessor, callback, fallback>>,
                r |-> check(accessor, callback, fallback),
                op |-> "check", fn |-> Undefined]
    /\ UNCHANGED <<sig, gate, given, written, inst, obs>>

MakeWhen(accessor, callback, fallback) ==
    /\ gate = Undefined /\ last = Idle
    /\ gate' = when(accessor, callback, fallback)
    /\ given' = [op |-> "when", in |-> <<accessor, callback, fallback>>]
    /\ written' = FALSE
    /\ last' = Idle
    /\ UNCHANGED <<sig, inst, obs>>

MakeEvery(accessors) ==
    /\ gate = Undefined /\ last = Idle
    /\ gate' = every(accessors)
    /\ given' = [op |-> "every", in |-> accessors]
    /\ written' = FALSE
    /\ last' = Idle
    /\ UNCHANGED <<sig, inst, obs>>

\* producerFn() takes no arguments; a gated function takes any.
CallGate(args) ==
    /\ gate.type = "function"
    /\ gate.s = "every" => args = <<>>
    /\ last' = [args |-> args, r |-> Invoke(gate, args), op |-> "call", fn |-> gate]
    /\ UNCHANGED <<sig, gate, given, written, inst, obs>>

\* The caller drops the function and the result it holds.
Release ==
    /\ gate # Undefined \/ last # Idle
    /\ gate' = Undefined
    /\ given' = NotBuilt
    /\ written' = FALSE
    /\ last' = Idle
    /\ UNCHANGED <<sig, inst, obs>>

\* whenify(fn)(accessor, callback, fallback) for a plain function fn.
DoWhenify(fn, accessor, callback, fallback) ==
    /\ gate = Undefined /\ last = Idle
    /\ last' = [args |-> <<accessor, callback, fallback>>,
                r |-> whenified(fn, accessor, callback, fallback),
                op |-> "whenify", fn |-> fn]
    /\ UNCHANGED <<sig, gate, given, written, inst, obs>>

NextCore ==
    \/ \E s \in CoreSigs, v \in SigVals : SetSignal(s, v)
    \/ \E x \in CheckInputs, cb \in Callbacks, fb \in Fallbacks : DoCheck(x, cb, fb)
    \/ \E x \in GateInputs, cb \in GateCallbacks, fb \in GateFallbacks :
          MakeWhen(x, cb, fb)
    \/ \E accs \in EveryLists : MakeEvery(accs)
    \/ \E args \in ArgLists : CallGate(args)
    \/ Release

SpecCore == InitCore /\ [][NextCore]_vars

\* whenify over plain functions.
Mocks == {Fn(n) : n \in MockNames}

NextAdapter ==
    \/ \E s \in CoreSigs, v \in SigVals : SetSignal(s, v)
    \/ \E fn \in Mocks, x \in GateInputs, cb \in GateCallbacks, fb \in GateFallbacks :
          DoWhenify(fn, x, cb, fb)
    \/ Release

SpecAdapter == InitCore /\ [][NextAdapter]_vars

\* check, when, every and whenify over producers and branches that throw.
ErrInputs ==
    {Fn("thrower"), Fn("a"), Null, Num(1),
     every(<<Fn("a"), Fn("thrower")>>), every(<<Fn("thrower"), Fn("a")>>)}
ErrEveryVals == {Num(1), Fn("a"), Fn("thrower")}

NextErrors ==
    \/ \E v \in SigVals : SetSignal("a", v)
    \/ \E x \in ErrInputs, cb \in GateCallbacks, fb \in GateFallbacks : DoCheck(x, cb, fb)
    \/ \E x \in ErrInputs, cb \in GateCallbacks, fb \in GateFallbacks : MakeWhen(x, cb, fb)
    \/ \E accs \in SeqsUpTo(ErrEveryVals, MaxEvery) : MakeEvery(accs)
    \/ \E args \in ArgLists : CallGate(args)
    \/ \E fn \in Mocks, x \in ErrInputs, cb \in GateCallbacks, fb \in GateFallbacks :
          DoWhenify(fn, x, cb, fb)
    \/ Release

SpecErrors == InitCore /\ [][NextErrors]_vars

\* check, when and every over producers that return functions.
ResolveInputs ==
    {Num(1), Null, Fn("a"), Thunk(Num(0)), Thunk(Fn("a")), Thunk(Fn("thrower")),
     Thunk(Thunk(Null))}
ResolveEveryVals == {Num(1), Fn("a"), Thunk(Fn("a"))}

NextResolve ==
    \/ \E v \in SigVals : SetSignal("a", v)
    \/ \E x \in ResolveInputs, cb \in GateCallbacks, fb \in GateFallbacks : DoCheck(x, cb, fb)
    \/ \E x \in ResolveInputs, cb \in GateCallbacks, fb \in GateFallbacks : MakeWhen(x, cb, fb)
    \/ \E accs \in SeqsUpTo(ResolveEveryVals, MaxEvery) : MakeEvery(accs)
    \/ \E args \in ArgLists : CallGate(args)
    \/ Release

SpecResolve == InitCore /\ [][NextResolve]_vars

\* Two calls of one conjunction, whose tuples are arrays with an identity:
\* obs.heap[id] holds the elements of array id, obs.refs the array each call
\* returned (0 for undefined).
TupleVals == {Num(1), Fn("a"), Fn("b")}
TupleSigVals == {Null, Str("x")}
MaxCalls == 2

\* Faulty variant: const values = new Array(n) outside callback, one array
\* for all the calls.
tupleCell_shared(heap) == 1

\* const values = new Array(accessors.length), inside callback: a new array.
tupleCell(heap) == Len(heap) + 1

\* The heap once the loop has stored elems in the array id.
stored(heap, id, elems) ==
    IF id <= Len(heap) THEN [heap EXCEPT ![id] = elems] ELSE Append(heap, elems)

TupleCall ==
    /\ gate.type = "function" /\ gate.s = "every"
    /\ Len(obs.refs) < MaxCalls
    /\ LET r == Invoke(gate, <<>>)
           id == IF r.val.type = "object" THEN tupleCell(obs.heap) ELSE 0
           heap == IF id = 0 THEN obs.heap ELSE stored(obs.heap, id, r.val.cl)
       IN obs' = [obs EXCEPT !.heap = heap, !.refs = Append(@, id)]
    /\ UNCHANGED <<sig, gate, given, written, last, inst>>

\* t[k] = v: the caller writes into the tuple the call before returned.
TupleMutate(k, v) ==
    /\ Len(obs.refs) \in 1..(MaxCalls - 1)
    /\ obs.refs[Len(obs.refs)] # 0
    /\ k \in 1..Len(obs.heap[obs.refs[Len(obs.refs)]])
    /\ obs.heap[obs.refs[Len(obs.refs)]][k] # v
    /\ obs' = [obs EXCEPT !.heap[obs.refs[Len(obs.refs)]][k] = v]
    /\ UNCHANGED <<sig, gate, given, written, last, inst>>

\* A signal is written between the calls.
TupleSet(s, v) ==
    /\ Len(obs.refs) < MaxCalls
    /\ sig[s] # v
    /\ sig' = [sig EXCEPT ![s] = v]
    /\ UNCHANGED <<gate, given, written, last, inst, obs>>

NextTuples ==
    \/ \E accs \in SeqsUpTo(TupleVals, MaxEvery) : MakeEvery(accs)
    \/ \E s \in CoreSigs, v \in TupleSigVals : TupleSet(s, v)
    \/ TupleCall
    \/ \E k \in 1..MaxEvery : TupleMutate(k, Str("mutated"))

SpecTuples == InitCore /\ [][NextTuples]_vars

\* The evaluation of when(accessor, callback, fallback) and of every(...) as
\* completions: the function returned and the events performed on the way.
\* Faulty variant: the input is resolved once when the gate is built.
when_built_eager(accessor, callback, fallback) ==
    LET r == resolve(accessor) IN
    IF r.st = "throw" THEN r ELSE Ok(when(accessor, callback, fallback), r.ev)

\* return (...args) => check(...): the body only builds the function.
when_built(accessor, callback, fallback) == Ok(when(accessor, callback, fallback), <<>>)

\* function callback() {...}; return callback
every_built(accessors) == Ok(every(accessors), <<>>)

BuildInputs == {Fn("thrower"), Fn("a"), Null, Num(1)}
BuildCallbacks == {Fn("cb_id"), Fn("cb_throw")}
BuildFallbacks == {Fn("fb_m1"), Fn("fb_throw"), Undefined}
BuildEveryVals == {Num(1), Fn("a"), Fn("thrower")}

BuildWhen(accessor, callback, fallback) ==
    /\ gate = Undefined /\ last = Idle
    /\ LET r == when_built(accessor, callback, fallback) IN
       /\ last' = [args |-> <<accessor, callback, fallback>>, r |-> r,
                   op |-> "when", fn |-> Undefined]
       /\ gate' = IF r.st = "ok" THEN r.val ELSE Undefined
    /\ given' = [op |-> "when", in |-> <<accessor, callback, fallback>>]
    /\ written' = FALSE
    /\ UNCHANGED <<sig, inst, obs>>

BuildEvery(accessors) ==
    /\ gate = Undefined /\ last = Idle
    /\ LET r == every_built(accessors) IN
       /\ last' = [args |-> accessors, r |-> r, op |-> "every", fn |-> Undefined]
       /\ gate' = IF r.st = "ok" THEN r.val ELSE Undefined
    /\ given' = [op |-> "every", in |-> accessors]
    /\ written' = FALSE
    /\ UNCHANGED <<sig, inst, obs>>

NextBuild ==
    \/ \E v \in SigVals : SetSignal("a", v)
    \/ \E x \in BuildInputs, cb \in BuildCallbacks, fb \in BuildFallbacks :
          BuildWhen(x, cb, fb)
    \/ \E accs \in SeqsUpTo(BuildEveryVals, MaxEvery) : BuildEvery(accs)
    \/ \E args \in ArgLists : CallGate(args)
    \/ Release

SpecBuild == InitCore /\ [][NextBuild]_vars

\* check and gated functions over a producer that returns another value at
\* each invocation.
OnceVals == {Null, Num(0), Num(5), Num(7)}
OnceInputs == {Cycle(<<v, w>>) : v, w \in OnceVals} \cup {Fn("a"), Num(5)}
OnceCallbacks == {Fn("cb_id"), Fn("cb_double")}
OnceFallbacks == {Fn("fb_m1"), Undefined}

IsCycleRead(e) == e.e = "read" /\ e.f = "cycle"

\* A call of the gated function; each invocation of the producer it holds
\* has moved the producer on.
OnceCall(args) ==
    /\ gate.type = "function" /\ gate.s = "when"
    /\ LET r == Invoke(gate, args) IN
       /\ last' = [args |-> args, r |-> r, op |-> "call", fn |-> gate]
       /\ gate' = [gate EXCEPT !.cl[1] = Advance(@, Len(SelectSeq(r.ev, IsCycleRead)))]
    /\ UNCHANGED <<sig, given, written, inst, obs>>

NextOnce ==
    \/ \E v \in {Null, Num(5)} : SetSignal("a", v)
    \/ \E x \in OnceInputs, cb \in OnceCallbacks, fb \in OnceFallbacks : DoCheck(x, cb, fb)
    \/ \E x \in OnceInputs, cb \in OnceCallbacks, fb \in OnceFallbacks : MakeWhen(x, cb, fb)
    \/ \E args \in SeqsUpTo({Num(7)}, MaxArgs) : OnceCall(args)
    \/ Release

SpecOnce == InitCore /\ [][NextOnce]_vars

\* check and when over callbacks whose result is falsy.
OutInputs == {Bool(TRUE), Num(1), Str("hello"), Obj("Object", 2), Null, Num(0), Fn("a")}
OutCallbacks == {Fn("cb_zero"), Fn("cb_false"), Fn("cb_empty"), Fn("cb_void"), Fn("cb_id")}
OutFallbacks == {Fn("fb_m1"), Undefined}

NextOutputs ==
    \/ \E v \in SigVals : SetSignal("a", v)
    \/ \E x \in OutInputs, cb \in OutCallbacks, fb \in OutFallbacks : DoCheck(x, cb, fb)
    \/ \E x \in OutInputs, cb \in OutCallbacks, fb \in OutFallbacks : MakeWhen(x, cb, fb)
    \/ \E args \in ArgLists : CallGate(args)
    \/ Release

SpecOutputs == InitCore /\ [][NextOutputs]_vars

(***************************************************************************)
(* Computations built through whenify, run by the host's scheduler.        *)
(***************************************************************************)
Kinds == {"memo", "computed", "effect", "render"}
HostSigs == {"a", "b"}
HostInputs == {Fn("a"), Null, every(<<Fn("a"), Fn("b")>>)}
HostCallbacks == {Fn("cb_id"), Fn("cb_double"), Fn("cb_throw")}

InitHost == InitCore

Create(i, kind, accessor, callback, fallback) ==
    /\ inst[i].status = "none"
    /\ inst' = [inst EXCEPT ![i] =
                  [whenify(kind, accessor, callback, fallback)
                      EXCEPT !.given = <<accessor, callback, fallback>>]]
    /\ UNCHANGED <<sig, gate, given, written, last, obs>>

\* Faulty variant: a computation that was torn down is still marked.
notify_disposed(s) ==
    [i \in Insts |->
       [inst[i] EXCEPT !.pending = @ \/ (inst[i].status # "none" /\ inst[i].runs >= 1),
                       !.r = NoRun,
                       !.before = NoBranch]]

\* The computations after a write of signal s: those that read s are due to
\* run again.
notify(s) ==
    [i \in Insts |->
       [inst[i] EXCEPT !.pending = @ \/ (inst[i].status = "active" /\ s \in inst[i].deps),
                       !.r = NoRun,
                       !.before = NoBranch]]

\* A signal write: the computations that read the signal are due to run again.
Write(s, v) ==
    /\ sig[s] # v
    /\ sig' = [sig EXCEPT ![s] = v]
    /\ inst' = notify(s)
    /\ UNCHANGED <<gate, given, written, last, obs>>

\* The scheduler runs a computation that is due.
Rerun(i) ==
    /\ inst[i].status = "active"
    /\ inst[i].pending
    /\ inst[i].runs < MaxRuns
    /\ inst' = [inst EXCEPT ![i] = runComputation(inst[i])]
    /\ UNCHANGED <<sig, gate, given, written, last, obs>>

\* The owner of the computation is torn down.
Dispose(i) ==
    /\ inst[i].status = "active"
    /\ inst' = [inst EXCEPT ![i] =
                  [@ EXCEPT !.status = "disposed", !.pending = FALSE, !.deps = {},
                            !.r = NoRun, !.before = NoBranch]]
    /\ UNCHANGED <<sig, gate, given, written, last, obs>>

NextHost ==
    \/ \E k \in Kinds, x \in HostInputs, cb \in HostCallbacks, fb \in Fallbacks :
          Create(1, k, x, cb, fb)
    \/ \E s \in HostSigs, v \in SigVals : Write(s, v)
    \/ Rerun(1)
    \/ Dispose(1)

SpecHost == InitHost /\ [][NextHost]_vars

\* Two computations made by one adapted constructor, the first over the
\* signal a and the second over a or b, and the adapter over a function that
\* calls the gated function with nothing.
PairKinds == {"memo", "effect"}
PairInputs == {Fn("a"), Fn("b")}
PairSigVals == {Null, Num(5), Num(7)}
PairCallbacks == {Fn("cb_id"), Fn("cb_double")}
PairFallbacks == {Fn("fb_m1"), Undefined}

PairCreate(i, kind, accessor, callback, fallback) ==
    /\ last = Idle
    /\ i = 1 => accessor = Fn("a")
    /\ \A j \in Insts : inst[j].status # "none" => inst[j].kind = kind
    /\ Create(i, kind, accessor, callback, fallback)

PairMock(accessor, callback, fallback) ==
    /\ \A j \in Insts : inst[j].status = "none"
    /\ DoWhenify(Fn("mock_call"), accessor, callback, fallback)

NextPair ==
    \/ \E i \in Insts, k \in PairKinds, x \in PairInputs, cb \in PairCallbacks,
          fb \in PairFallbacks : PairCreate(i, k, x, cb, fb)
    \/ \E s \in HostSigs, v \in PairSigVals : Write(s, v)
    \/ \E i \in Insts : Rerun(i)
    \/ \E x \in PairInputs, cb \in PairCallbacks, fb \in PairFallbacks : PairMock(x, cb, fb)
    \/ Release

SpecPair == InitCore /\ [][NextPair]_vars

\* createMemo(when(every(a, b, c), cb)) while any of the three signals is written.
TrackCallbacks == {Fn("cb_id"), Fn("cb_double")}

InitTrack ==
    /\ sig \in [SigNames -> SigVals]
    /\ gate = Undefined
    /\ given = NotBuilt
    /\ written = FALSE
    /\ last = Idle
    /\ inst = [i \in Insts |-> NoInst]
    /\ obs = NoObs

NextTrack ==
    \/ \E cb \in TrackCallbacks :
          Create(1, "memo", every(<<Fn("a"), Fn("b"), Fn("c")>>), cb, Undefined)
    \/ \E s \in SigNames, v \in SigVals : Write(s, v)
    \/ Rerun(1)

SpecTrack == InitTrack /\ [][NextTrack]_vars

(***************************************************************************)
(* One computation over the signal a, driven the way the tests drive it:   *)
(* the signal is written, the host runs what is due, the caller reads the  *)
(* value back and counts the executions of each branch.                    *)
(***************************************************************************)
DriveVals == {Null, Num(0), Num(5), Num(7)}
DriveCallbacks == {Fn("cb_id"), Fn("cb_double"), Fn("cb_void"), Fn("cb_zero")}
DriveFallbacks == {Fn("fb_m1"), Fn("fb_void"), Undefined}

\* What the caller records of the run that made c: the value the host keeps,
\* the branch that ran, what it returned and the `previous` it was handed.
Seen(c) ==
    [out |-> c.after.out,
     value |-> c.value,
     ran |-> c.after.ran,
     ret |-> c.after.val,
     prev |-> IF BranchCalls(c.r) = <<>> THEN Undefined
              ELSE LET e == BranchCalls(c.r)[1] IN
                   IF IsCallbackCall(e) THEN e.args[2] ELSE e.args[1]]

Observe(o, c) ==
    [o EXCEPT !.runs = Append(@, Seen(c)),
              !.cb = @ + Len(CallbackCalls(c.r)),
              !.fb = @ + Len(FallbackCalls(c.r))]

InitDrive ==
    /\ sig \in [SigNames -> DriveVals]
    /\ sig["b"] = Null /\ sig["c"] = Null
    /\ gate = Undefined
    /\ given = NotBuilt
    /\ written = FALSE
    /\ last = Idle
    /\ inst = [i \in Insts |-> NoInst]
    /\ obs = NoObs

\* whenMemo(a, cb, fb), whenEffect(a, cb, fb), ...: the first input is the
\* value a holds; an effect's first run is still due.
DriveCreate(kind, callback, fallback) ==
    /\ inst[1].status = "none"
    /\ LET c == [whenify(kind, Fn("a"), callback, fallback)
                    EXCEPT !.given = <<Fn("a"), callback, fallback>>]
           o == [obs EXCEPT !.ins = <<sig["a"]>>]
       IN /\ inst' = [inst EXCEPT ![1] = c]
          /\ obs' = IF c.runs = 1 THEN Observe(o, c) ELSE o
    /\ UNCHANGED <<sig, gate, given, written, last>>

\* setA(v), once the host has run what was due.
DriveWrite(v) ==
    /\ inst[1].status = "active"
    /\ ~inst[1].pending
    /\ Len(obs.ins) <= MaxChanges
    /\ sig["a"] # v
    /\ sig' = [sig EXCEPT !["a"] = v]
    /\ inst' = notify("a")
    /\ obs' = [obs EXCEPT !.ins = Append(@, v), !.read = <<>>]
    /\ UNCHANGED <<gate, given, written, last>>

\* result(): the caller calls what whenMemo returned.  The host's accessor
\* gives the value the memo holds and runs nothing.
readHandle(c) ==
    IF c.handle = MemoHandle THEN Ok(c.value, <<>>) ELSE Invoke(c.handle, <<>>)

DriveRead ==
    /\ inst[1].status = "active"
    /\ inst[1].kind = "memo"
    /\ ~inst[1].pending
    /\ LET r == readHandle(inst[1]) IN
       obs' = [obs EXCEPT !.read = <<r.val>>,
                          !.cb = @ + Len(CallbackCalls(r)),
                          !.fb = @ + Len(FallbackCalls(r))]
    /\ UNCHANGED <<sig, gate, given, written, last, inst>>

\* The host runs the computation that is due; the caller reads it back.
DriveFlush ==
    /\ inst[1].status = "active"
    /\ inst[1].pending
    /\ LET c == runComputation(inst[1]) IN
       /\ inst' = [inst EXCEPT ![1] = c]
       /\ obs' = Observe(obs, c)
    /\ UNCHANGED <<sig, gate, given, written, last>>

NextDrive ==
    \/ \E k \in Kinds, cb \in DriveCallbacks, fb \in DriveFallbacks : DriveCreate(k, cb, fb)
    \/ \E v \in DriveVals : DriveWrite(v)
    \/ DriveFlush
    \/ DriveRead

SpecDrive == InitDrive /\ [][NextDrive]_vars

\* The same, with branches that throw.
ThrowCallbacks == {Fn("cb_id"), Fn("cb_throw")}
ThrowFallbacks == {Fn("fb_m1"), Fn("fb_throw"), Undefined}

NextThrow ==
    \/ \E k \in Kinds, cb \in ThrowCallbacks, fb \in ThrowFallbacks : DriveCreate(k, cb, fb)
    \/ \E v \in DriveVals : DriveWrite(v)
    \/ DriveFlush
    \/ DriveRead

SpecThrow == InitDrive /\ [][NextThrow]_vars

(***************************************************************************)
(* whenMemo(user, u => check(() => u.role === 'admin', when(feature, g))): *)
(* the signal a is the user, the signal b the feature.                     *)
(***************************************************************************)
PlainUser == Obj("User", 0)
AdminUser == Obj("User", 1)
FeatureOff == Obj("Feature", 0)
FeatureOn == Obj("Feature", 1)
UserVals == {Null, PlainUser, AdminUser}
FeatureVals == {Null, FeatureOff, FeatureOn}

InitNested ==
    /\ sig \in [SigNames -> UserVals \cup FeatureVals]
    /\ sig["a"] \in UserVals /\ sig["b"] \in FeatureVals /\ sig["c"] = Null
    /\ gate = Undefined
    /\ given = NotBuilt
    /\ written = FALSE
    /\ last = Idle
    /\ inst = [i \in Insts |-> NoInst]
    /\ obs = NoObs

NextNested ==
    \/ Create(1, "memo", Fn("a"), Fn("nested"), Undefined)
    \/ \E v \in UserVals : Write("a", v)
    \/ \E v \in FeatureVals : Write("b", v)
    \/ Rerun(1)

SpecNested == InitNested /\ [][NextNested]_vars

(***************************************************************************)
(* A whenEffect and a whenRenderEffect over the signal a, created one      *)
(* after the other in the body of one root.  The host runs a render effect *)
(* when it is created and before the effects that are due.                 *)
(***************************************************************************)
OrderVals == {Null, Num(5)}
OrderFallbacks == {Fn("fb_m1"), Undefined}

\* The entry the run that made c adds to the order of executions.
Ran(i, c) == [id |-> i, ran |-> c.after.ran]

InitOrder ==
    /\ sig \in [SigNames -> OrderVals]
    /\ sig["b"] = Null /\ sig["c"] = Null
    /\ gate = Undefined
    /\ given = NotBuilt
    /\ written = FALSE
    /\ last = Idle
    /\ inst = [i \in Insts |-> NoInst]
    /\ obs = NoObs

\* createRoot(() => { first(a, cb, fb); second(a, cb, fb) }), one of the two
\* whenEffect and the other whenRenderEffect.
OrderCreate(effectFirst, callback, fallback) ==
    /\ \A i \in Insts : inst[i].status = "none"
    /\ LET e == [whenEffect(Fn("a"), callback, fallback)
                    EXCEPT !.given = <<Fn("a"), callback, fallback>>]
           r == [whenRenderEffect(Fn("a"), callback, fallback)
                    EXCEPT !.given = <<Fn("a"), callback, fallback>>]
           c == IF effectFirst THEN <<e, r>> ELSE <<r, e>>
       IN /\ inst' = [i \in Insts |-> c[i]]
          /\ obs' = [obs EXCEPT
                       !.ins = <<sig["a"]>>,
                       !.order = (IF c[1].runs = 1 THEN <<Ran(1, c[1])>> ELSE <<>>)
                                 \o (IF c[2].runs = 1 THEN <<Ran(2, c[2])>> ELSE <<>>)]
    /\ given' = [op |-> "root",
                 in |-> IF effectFirst THEN <<Str("whenEffect"), Str("whenRenderEffect")>>
                        ELSE <<Str("whenRenderEffect"), Str("whenEffect")>>]
    /\ UNCHANGED <<sig, gate, written, last>>

OrderWrite(v) ==
    /\ sig["a"] # v
    /\ sig' = [sig EXCEPT !["a"] = v]
    /\ inst' = notify("a")
    /\ UNCHANGED <<gate, given, written, last, obs>>

\* The scheduler runs a computation that is due, render effects first.
OrderRerun(i) ==
    /\ inst[i].status = "active"
    /\ inst[i].pending
    /\ inst[i].runs < MaxRuns
    /\ inst[i].kind = "effect" =>
          ~\E j \in Insts : inst[j].kind = "render" /\ inst[j].pending
    /\ LET c == runComputation(inst[i]) IN
       /\ inst' = [inst EXCEPT ![i] = c]
       /\ obs' = [obs EXCEPT !.order = Append(@, Ran(i, c))]
    /\ UNCHANGED <<sig, gate, given, written, last>>

NextOrder ==
    \/ \E first \in BOOLEAN, cb \in {Fn("cb_id")}, fb \in OrderFallbacks :
          OrderCreate(first, cb, fb)
    \/ \E v \in OrderVals : OrderWrite(v)
    \/ \E i \in Insts : OrderRerun(i)

SpecOrder == InitOrder /\ [][NextOrder]_vars

(***************************************************************************)
(* What the claims speak of.                                               *)
(***************************************************************************)
\* The falsy set as the claims enumerate it.
FalsySet == {Bool(FALSE), Num(0), NegZero, BigInt(0), Str(""), Null, Undefined, NaN}

\* The value an input stands for in the current state (a throwing producer
\* stands for none).
RECURSIVE Denotes(_)
Denotes(x) ==
    IF x.type # "function" THEN x
    ELSE CASE x.s \in SigNames -> sig[x.s]
           [] x.s = "thunk" -> x.cl[1]
           [] x.s = "every" ->
                IF \E k \in 1..Len(x.cl) : Denotes(x.cl[k]) \in FalsySet THEN Undefined
                ELSE Arr([k \in 1..Len(x.cl) |-> Denotes(x.cl[k])])
           [] OTHER -> Undefined

RECURSIVE Throws(_)
Throws(x) ==
    /\ x.type = "function"
    /\ \/ x.s = "thrower"
       \/ x.s = "every" /\ \E k \in 1..Len(x.cl) :
             /\ Throws(x.cl[k])
             /\ \A j \in 1..(k - 1) : ~Throws(x.cl[j]) /\ Denotes(x.cl[j]) \notin FalsySet

\* r is what calling the user function f with args gives.
IsResultOf(r, e) ==
    /\ r.st = (IF e.out = "throw" THEN "throw" ELSE "ok")
    /\ r.val = e.val

\* The last operation was check(x, cb, fb).
LastCheck == last.op = "check"
\* The last operation was a call of a function built by when.
LastGated == last.op = "call" /\ given.op = "when"
\* The last operation was a call of a producer built by every.
LastEvery == last.op = "call" /\ given.op = "every"

\* The accessor, callback and fallback of the last check or gated call.
LastAccessor == IF LastCheck THEN last.args[1] ELSE given.in[1]
LastCallback == IF LastCheck THEN last.args[2] ELSE given.in[2]
LastFallback == IF LastCheck THEN last.args[3] ELSE given.in[3]
\* The call-time arguments (check has none).
LastExtra == IF LastCheck THEN <<>> ELSE last.args

(***************************************************************************)
(* C1: for every input in the falsy set, given directly or produced by a   *)
(* zero-argument producer, check(v, cb) and when(v, cb)() without fallback *)
(* return undefined and never invoke cb.                                   *)
(***************************************************************************)
C1_FalsyReturnsAbsent ==
    ((LastCheck \/ LastGated)
        /\ LastFallback = Undefined
        /\ ~Throws(LastAccessor)
        /\ Denotes(LastAccessor) \in FalsySet)
    => /\ last.r.st = "ok"
       /\ last.r.val = Undefined
       /\ BranchCalls(last.r) = <<>>

C1_Witness ==
    /\ LastGated
    /\ LastFallback = Undefined
    /\ LastAccessor = Thunk(NaN)
    /\ last.args = <<Num(7)>>
    /\ last.r.val = Undefined

(***************************************************************************)
(* C2: for every non-function input outside the falsy set, check(v, cb)    *)
(* invokes cb exactly once with v as its only argument and returns cb's    *)
(* result; a supplied fallback is not invoked.                             *)
(***************************************************************************)
C2_TruthyInvokesCallback ==
    (LastCheck /\ LastAccessor.type # "function" /\ LastAccessor \notin FalsySet)
    => /\ Len(BranchCalls(last.r)) = 1
       /\ BranchCalls(last.r)[1].f = LastCallback.s
       /\ BranchCalls(last.r)[1].args = <<LastAccessor>>
       /\ IsResultOf(last.r, BranchCalls(last.r)[1])

C2_Witness ==
    /\ LastCheck
    /\ LastAccessor = Obj("Array", 1)
    /\ LastCallback = Fn("cb_id")
    /\ LastFallback = Fn("fb_m1")
    /\ last.r.val = Obj("Array", 1)

(***************************************************************************)
(* C3: check(v, cb, fb) with a falsy resolved v invokes fb exactly once    *)
(* with zero arguments and returns fb's result; no call of check invokes   *)
(* both cb and fb.                                                         *)
(***************************************************************************)
C3_FalsyInvokesFallback ==
    LastCheck =>
       /\ (LastFallback # Undefined /\ ~Throws(LastAccessor)
              /\ Denotes(LastAccessor) \in FalsySet)
          => /\ Len(BranchCalls(last.r)) = 1
             /\ BranchCalls(last.r)[1].f = LastFallback.s
             /\ BranchCalls(last.r)[1].args = <<>>
             /\ IsResultOf(last.r, BranchCalls(last.r)[1])
       /\ ~(CallbackCalls(last.r) # <<>> /\ FallbackCalls(last.r) # <<>>)

C3_Witness ==
    /\ LastCheck
    /\ LastAccessor = Fn("a")
    /\ sig["a"] = Null
    /\ LastFallback = Fn("fb_m1")
    /\ last.r.val = Num(-1)

(***************************************************************************)
(* C4: within one invocation of check or of a gated function the input is  *)
(* resolved before any branch runs, and exactly one of {callback runs,     *)
(* fallback runs, neither runs} occurs: no branch runs before the input    *)
(* has been resolved and no branch runs twice.                             *)
(***************************************************************************)
C4_ResolveThenOneBranch ==
    (LastCheck \/ LastGated) =>
       LET ev == last.r.ev IN
       /\ Len(BranchCalls(last.r)) <= 1
       /\ \A i \in 1..Len(ev) : IsBranchCall(ev[i]) =>
             /\ \E j \in 1..(i - 1) : ev[j].e = "resolved" /\ ev[j].f = "check"
             /\ \A j \in 1..Len(ev) : (IsRead(ev[j]) \/ ev[j].e = "resolved") => j < i
       /\ (LastAccessor.type = "function" /\ LastAccessor.s \in SigNames \cup {"thunk"}) =>
             IsRead(ev[1])

C4_Witness ==
    /\ LastGated
    /\ LastAccessor = Fn("b")
    /\ LastFallback = Fn("fb_m1")
    /\ Len(last.r.ev) = 3
    /\ IsRead(last.r.ev[1])
    /\ last.r.ev[2].e = "resolved"
    /\ IsCallbackCall(last.r.ev[3])

(***************************************************************************)
(* C5: for gatedFn = when(input, cb, fb) and a call gatedFn(a1..ak): a     *)
(* truthy resolved v invokes cb with exactly (v, a1..ak); a falsy one      *)
(* invokes fb with exactly (a1..ak); with no fallback and a falsy input    *)
(* the result is undefined whatever the arguments.                         *)
(***************************************************************************)
C5_ArgumentsForwarded ==
    (LastGated /\ ~Throws(LastAccessor)) =>
       LET v == Denotes(LastAccessor)
           calls == BranchCalls(last.r)
       IN IF v \notin FalsySet
          THEN /\ Len(calls) = 1
               /\ calls[1].f = LastCallback.s
               /\ calls[1].args = <<v>> \o last.args
               /\ IsResultOf(last.r, calls[1])
          ELSE IF LastFallback # Undefined
          THEN /\ Len(calls) = 1
               /\ calls[1].f = LastFallback.s
               /\ calls[1].args = last.args
               /\ IsResultOf(last.r, calls[1])
          ELSE /\ calls = <<>>
               /\ last.r.st = "ok"
               /\ last.r.val = Undefined

C5_Witness ==
    /\ LastGated
    /\ LastAccessor = Bool(FALSE)
    /\ last.args = <<Str("t"), Num(7)>>
    /\ Len(BranchCalls(last.r)) = 1
    /\ BranchCalls(last.r)[1].f = "fb_m1"
    /\ BranchCalls(last.r)[1].args = <<Str("t"), Num(7)>>

(***************************************************************************)
(* C6: every call of a gated function, and every call of check with a      *)
(* producer input, resolves the input at that call: the branch chosen and  *)
(* the value passed depend only on the producer's value at that call and   *)
(* on that call's arguments, whatever was called or written before.       *)
(***************************************************************************)
C6_ResolvedAtEachCall ==
    ((LastCheck \/ LastGated)
        /\ LastAccessor.type = "function" /\ LastAccessor.s \in SigNames) =>
       LET now == sig[LastAccessor.s]
           calls == BranchCalls(last.r)
       IN /\ last.r.ev[1] = Ev("read", LastAccessor.s, <<>>, "return", now)
          /\ now \notin FalsySet =>
                /\ Len(calls) = 1
                /\ calls[1].f = LastCallback.s
                /\ calls[1].args = <<now>> \o LastExtra
          /\ now \in FalsySet =>
                /\ CallbackCalls(last.r) = <<>>
                /\ LastFallback # Undefined =>
                      /\ Len(calls) = 1
                      /\ calls[1].f = LastFallback.s
                      /\ calls[1].args = LastExtra

\* The gate was built while a was null, a was written since, and the call
\* passes the new value.
C6_Witness ==
    /\ LastGated
    /\ written
    /\ LastAccessor = Fn("a")
    /\ sig["a"] = Str("x")
    /\ Len(CallbackCalls(last.r)) = 1
    /\ CallbackCalls(last.r)[1].args = <<Str("x"), Num(7)>>

(***************************************************************************)
(* C7: for every(i1..in) with n >= 1 the producer returns undefined if at  *)
(* least one input resolves falsy, and otherwise a sequence of length      *)
(* exactly n whose k-th element is the resolved value of the k-th input.   *)
(***************************************************************************)
C7_AllOrNothingTuple ==
    (LastEvery /\ Len(given.in) >= 1) =>
       /\ last.r.st = "ok"
       /\ IF \E k \in 1..Len(given.in) : Denotes(given.in[k]) \in FalsySet
          THEN last.r.val = Undefined
          ELSE /\ last.r.val.type = "object"
               /\ last.r.val.s = "Array"
               /\ Len(last.r.val.cl) = Len(given.in)
               /\ \A k \in 1..Len(given.in) : last.r.val.cl[k] = Denotes(given.in[k])

C7_Witness ==
    /\ LastEvery
    /\ given.in = <<Fn("a"), Obj("Object", 2), Fn("b")>>
    /\ last.r.val = Arr(<<Num(5), Obj("Object", 2), Str("x")>>)

(***************************************************************************)
(* C8: every() built from zero inputs returns an empty tuple, not          *)
(* undefined, so when(every(), cb)() takes the callback branch.            *)
(***************************************************************************)
C8_EmptyConjunction ==
    /\ (LastEvery /\ given.in = <<>>) =>
          /\ last.r.st = "ok"
          /\ last.r.val = Val("object", 0, "Array", <<>>)
    /\ (LastGated /\ LastAccessor = Closure("every", <<>>)) =>
          /\ Len(CallbackCalls(last.r)) = 1
          /\ CallbackCalls(last.r)[1].args = <<Val("object", 0, "Array", <<>>)>> \o last.args
          /\ FallbackCalls(last.r) = <<>>

C8_Witness ==
    /\ LastGated
    /\ LastAccessor = Closure("every", <<>>)
    /\ LastFallback = Fn("fb_m1")
    /\ Len(CallbackCalls(last.r)) = 1
    /\ CallbackCalls(last.r)[1].f = "cb_id"

(***************************************************************************)
(* C9: on each call of every's producer the inputs are resolved in         *)
(* increasing index order from 0, each at most once, and resolution stops  *)
(* at the first falsy one: inputs 0..k are resolved exactly once each and  *)
(* no input after k is resolved on that call.                              *)
(***************************************************************************)
\* The number of inputs a call resolves: up to and including the first falsy one.
ResolvedCount(in) ==
    IF \E k \in 1..Len(in) : Denotes(in[k]) \in FalsySet
    THEN CHOOSE k \in 1..Len(in) :
            /\ Denotes(in[k]) \in FalsySet
            /\ \A j \in 1..(k - 1) : Denotes(in[j]) \notin FalsySet
    ELSE Len(in)

IsProducer(x) == x.type = "function"

C9_LeftToRightShortCircuit ==
    LastEvery =>
       LET n == ResolvedCount(given.in)
           resolved == SelectSeq(last.r.ev, IsEveryResolved)
           reads == SelectSeq(last.r.ev, IsRead)
           producers == SelectSeq(SubSeq(given.in, 1, n), IsProducer)
       IN /\ Len(resolved) = n
          /\ \A j \in 1..n : resolved[j].args = <<Num(j - 1)>>
          /\ Len(reads) = Len(producers)
          /\ \A j \in 1..Len(reads) : reads[j].f = producers[j].s

C9_Witness ==
    /\ LastEvery
    /\ given.in = <<Fn("a"), Fn("b"), Fn("a")>>
    /\ sig["a"] = Num(5)
    /\ sig["b"] = Null
    /\ Len(SelectSeq(last.r.ev, IsRead)) = 2

(***************************************************************************)
(* C10: for an adapted instance over a host that passes the prior return   *)
(* value, the `previous` argument seen on invocation N >= 2 equals the     *)
(* value returned by whichever branch ran on invocation N-1; the callback  *)
(* receives it as its second argument and the fallback as its first; on    *)
(* invocation 1 it is undefined.                                           *)
(***************************************************************************)
\* The `previous` argument the branch of run r received, with its position.
PreviousSeen(r) ==
    LET e == BranchCalls(r)[1] IN
    IF IsCallbackCall(e) THEN e.args[2] ELSE e.args[1]

C10_PreviousThreaded ==
    \A i \in Insts :
       LET c == inst[i] IN
       (c.status = "active" /\ BranchCalls(c.r) # <<>>) =>
          LET e == BranchCalls(c.r)[1] IN
          /\ Len(e.args) = (IF IsCallbackCall(e) THEN 2 ELSE 1)
          /\ c.runs = 1 => PreviousSeen(c.r) = Undefined
          /\ (c.runs >= 2 /\ c.before.ran \in {"cb", "fb"} /\ c.before.out = "return")
                => PreviousSeen(c.r) = c.before.val

\* The fallback ran on the run before and returned -1; the callback now
\* receives the signal's value and -1.
C10_Witness ==
    /\ inst[1].status = "active"
    /\ inst[1].kind = "effect"
    /\ inst[1].runs = 3
    /\ inst[1].before.ran = "fb"
    /\ inst[1].before.val = Num(-1)
    /\ Len(CallbackCalls(inst[1].r)) = 1
    /\ CallbackCalls(inst[1].r)[1].args = <<Num(5), Num(-1)>>

(***************************************************************************)
(* C11: a whenMemo or whenEffect built with a fallback and driven through  *)
(* a sequence of inputs, each different from the one before: the value     *)
(* observed after each change is callback(v) when v is truthy and the      *)
(* fallback's result when v is falsy; once every change has been run, the  *)
(* callback has executed as many times as there are truthy inputs and the  *)
(* fallback as many times as there are falsy ones.                         *)
(***************************************************************************)
\* What the branch for input v returns.
BranchResult(callback, fallback, v) ==
    IF v \notin FalsySet THEN UserBody(callback.s, <<v>>)[2]
    ELSE UserBody(fallback.s, <<>>)[2]

C11_DrivenOutputsAndCounts ==
    LET c == inst[1] IN
    (c.status = "active" /\ c.kind \in {"memo", "effect"} /\ c.given[3] # Undefined) =>
       /\ Len(obs.runs) = Len(obs.ins) - (IF c.pending THEN 1 ELSE 0)
       /\ \A k \in 1..Len(obs.runs) :
             obs.runs[k].value = BranchResult(c.given[2], c.given[3], obs.ins[k])
       /\ ~c.pending =>
             /\ obs.cb = Cardinality({k \in 1..Len(obs.ins) : obs.ins[k] \notin FalsySet})
             /\ obs.fb = Cardinality({k \in 1..Len(obs.ins) : obs.ins[k] \in FalsySet})

\* Inputs null, 5, 7, null with v => v * 2 and () => -1.
C11_Witness ==
    /\ inst[1].kind = "memo"
    /\ inst[1].given = <<Fn("a"), Fn("cb_double"), Fn("fb_m1")>>
    /\ obs.ins = <<Null, Num(5), Num(7), Null>>
    /\ Len(obs.runs) = 4
    /\ [k \in 1..4 |-> obs.runs[k].value] = <<Num(-1), Num(10), Num(14), Num(-1)>>
    /\ obs.cb = 2
    /\ obs.fb = 2

(***************************************************************************)
(* C12: the `previous` handed to a branch is the value returned by the     *)
(* most recent execution of the callback or the fallback: a run on which   *)
(* the input is falsy and no branch executes leaves it unchanged (input    *)
(* 1, 2, null, 3 with v => v * 2: the run for 3 receives 4).               *)
(***************************************************************************)
\* The last run before run k on which a branch executed, 0 if there is none.
LastExecutionBefore(k) ==
    LET earlier == {j \in 1..(k - 1) : obs.runs[j].ran # "none"} IN
    IF earlier = {} THEN 0 ELSE CHOOSE j \in earlier : \A i \in earlier : i <= j

C12_PreviousIsLastExecution ==
    \A k \in 1..Len(obs.runs) :
       (obs.runs[k].ran # "none" /\ LastExecutionBefore(k) # 0) =>
          obs.runs[k].prev = obs.runs[LastExecutionBefore(k)].ret

\* The run before executed no branch, the one before that returned 10.
C12_SkippedRunBetween ==
    /\ inst[1].kind = "effect"
    /\ inst[1].given = <<Fn("a"), Fn("cb_double"), Undefined>>
    /\ obs.ins = <<Num(5), Null, Num(7)>>
    /\ Len(obs.runs) = 3
    /\ obs.runs[1].ret = Num(10)
    /\ obs.runs[2].ran = "none"
    /\ obs.runs[3].ran = "cb"
    /\ obs.runs[3].prev = Undefined

(***************************************************************************)
(* C13 as stated: the `previous` of the first invocation is a marker       *)
(* distinct from every value a branch can return, undefined included, so   *)
(* that a branch can tell its first invocation from a later one.           *)
(***************************************************************************)
C13_InitialPreviousDistinct ==
    \A j \in 1..Len(obs.runs) :
       (obs.runs[1].ran # "none" /\ obs.runs[j].ran # "none") =>
          obs.runs[1].prev # obs.runs[j].ret

(***************************************************************************)
(* C13, amended: the `previous` of the first invocation is undefined, the  *)
(* host's initial value; it differs from what a branch returned exactly    *)
(* when that branch did not return undefined.                              *)
(***************************************************************************)
C13_InitialPreviousUndefined ==
    (Len(obs.runs) >= 1 /\ obs.runs[1].ran # "none") =>
       /\ obs.runs[1].prev = Undefined
       /\ \A j \in 1..Len(obs.runs) :
             obs.runs[j].ran # "none" =>
                ((obs.runs[1].prev = obs.runs[j].ret) <=> (obs.runs[j].ret = Undefined))

\* The first run and the third both receive undefined: the second returned it.
C13_Witness ==
    /\ inst[1].given = <<Fn("a"), Fn("cb_void"), Fn("fb_m1")>>
    /\ Len(obs.runs) = 3
    /\ obs.runs[1].ran = "fb"
    /\ obs.runs[1].prev = Undefined
    /\ obs.runs[2].ran = "cb"
    /\ obs.runs[2].ret = Undefined
    /\ obs.runs[3].ran = "cb"
    /\ obs.runs[3].prev = Undefined

(***************************************************************************)
(* C14: whenify(fn)(input, cb, fb) calls fn exactly once, within the call  *)
(* and whatever the truthiness of input, with the gated function           *)
(* when(input, cb, fb) as its single argument, and completes exactly as    *)
(* fn did: with fn's return value, be it a value or nothing.               *)
(***************************************************************************)
IsMockCall(e) == e.e = "call" /\ e.f \in MockNames
MockCalls(r) == SelectSeq(r.ev, IsMockCall)

LastWhenify == last.op = "whenify"

C14_CallsFnOnceAndReturnsItsResult ==
    LastWhenify =>
       LET calls == MockCalls(last.r) IN
       /\ Len(calls) = 1
       /\ calls[1].f = last.fn.s
       /\ calls[1].args = <<when(last.args[1], last.args[2], last.args[3])>>
       /\ IsResultOf(last.r, calls[1])
       /\ last.fn.s = "mock_effect" =>
             (last.r.st = "throw" \/ last.r.val = Str("effect-result"))
       /\ last.fn.s = "mock_defer" => (last.r.st = "ok" /\ last.r.val = Undefined)

\* The input is falsy and there is no fallback: fn is called all the same
\* and its return value comes back.
C14_Witness ==
    /\ LastWhenify
    /\ last.fn = Fn("mock_effect")
    /\ last.args = <<Fn("a"), Fn("cb_id"), Undefined>>
    /\ sig["a"] = Null
    /\ Len(MockCalls(last.r)) = 1
    /\ BranchCalls(last.r) = <<>>
    /\ last.r.val = Str("effect-result")

(***************************************************************************)
(* C15: an error thrown while the producer input is resolved, inside the   *)
(* callback or inside the fallback comes out, unchanged, of check, of the  *)
(* gated function and of the adapter; when the producer throws, no branch  *)
(* is invoked and no value is returned.                                    *)
(***************************************************************************)
\* check, a gated call, or whenify over a function that calls what it is given.
ErrCall == LastCheck \/ LastGated \/ (LastWhenify /\ last.fn.s # "mock_defer")
ErrAccessor == IF LastWhenify THEN last.args[1] ELSE LastAccessor
ErrCallback == IF LastWhenify THEN last.args[2] ELSE LastCallback
ErrFallback == IF LastWhenify THEN last.args[3] ELSE LastFallback

C15_ErrorsPropagate ==
    ErrCall =>
       /\ Throws(ErrAccessor) =>
             /\ last.r.st = "throw"
             /\ last.r.val = Str("Accessor error")
             /\ BranchCalls(last.r) = <<>>
       /\ (~Throws(ErrAccessor) /\ Denotes(ErrAccessor) \notin FalsySet
              /\ ErrCallback = Fn("cb_throw")) =>
             /\ last.r.st = "throw"
             /\ last.r.val = Str("Test error")
       /\ (~Throws(ErrAccessor) /\ Denotes(ErrAccessor) \in FalsySet
              /\ ErrFallback = Fn("fb_throw")) =>
             /\ last.r.st = "throw"
             /\ last.r.val = Str("Fallback error")

\* The second input of the conjunction throws once the first is truthy: the
\* error comes out of whenify(fn => fn()) and the fallback is not run.
C15_Witness ==
    /\ LastWhenify
    /\ last.fn = Fn("mock_call")
    /\ last.args = <<every(<<Fn("a"), Fn("thrower")>>), Fn("cb_id"), Fn("fb_m1")>>
    /\ sig["a"] = Num(5)
    /\ last.r.st = "throw"
    /\ last.r.val = Str("Accessor error")
    /\ BranchCalls(last.r) = <<>>

(***************************************************************************)
(* C16: when the producer at index k of every(...) throws during a call,   *)
(* the error comes out of the call: no tuple, whole or partial, and no     *)
(* undefined is returned, and no input after k is resolved on that call.   *)
(***************************************************************************)
\* The position of the input whose error a call of every(in) meets.
ThrowIndex(in) ==
    CHOOSE k \in 1..Len(in) :
       /\ Throws(in[k])
       /\ \A j \in 1..(k - 1) : ~Throws(in[j]) /\ Denotes(in[j]) \notin FalsySet

IsProducerCall(e) == IsRead(e) \/ (e.e = "call" /\ e.f = "thrower")

C16_EveryThrowAborts ==
    (LastEvery /\ Throws(every(given.in))) =>
       LET k == ThrowIndex(given.in)
           ev == last.r.ev
       IN /\ last.r.st = "throw"
          /\ last.r.val = Str("Accessor error")
          /\ Len(SelectSeq(ev, IsEveryResolved)) = k - 1
          /\ Len(SelectSeq(ev, IsProducerCall))
                = Len(SelectSeq(SubSeq(given.in, 1, k), IsProducer))
          /\ ev[Len(ev)] = Ev("call", "thrower", <<>>, "throw", Str("Accessor error"))

\* a is read once, the second input throws, the third (a again) is not read.
C16_Witness ==
    /\ LastEvery
    /\ given.in = <<Fn("a"), Fn("thrower"), Fn("a")>>
    /\ sig["a"] = Str("x")
    /\ last.r.st = "throw"
    /\ Len(SelectSeq(last.r.ev, IsRead)) = 1
    /\ Len(last.r.ev) = 3

(***************************************************************************)
(* C17: truthiness is tested on the resolved input only, never on what a   *)
(* branch returns: with a truthy input, check and gated functions return   *)
(* the callback's result as it is, also when it is 0, false, '' or         *)
(* undefined, and the fallback is not invoked because of it.               *)
(***************************************************************************)
C17_FalsyOutputKept ==
    ((LastCheck \/ LastGated) /\ ~Throws(LastAccessor)
        /\ Denotes(LastAccessor) \notin FalsySet) =>
       LET calls == BranchCalls(last.r) IN
       /\ Len(calls) = 1
       /\ calls[1].f = LastCallback.s
       /\ FallbackCalls(last.r) = <<>>
       /\ last.r.st = "ok"
       /\ last.r.val = calls[1].val
       /\ last.r.val = UserBody(LastCallback.s, <<Denotes(LastAccessor)>> \o LastExtra)[2]

\* The callback returns 0 for the truthy input 5; the fallback () => -1 is
\* not run and 0 comes back.
C17_Witness ==
    /\ LastGated
    /\ given.in = <<Fn("a"), Fn("cb_zero"), Fn("fb_m1")>>
    /\ sig["a"] = Num(5)
    /\ last.r.val = Num(0)
    /\ Len(CallbackCalls(last.r)) = 1
    /\ FallbackCalls(last.r) = <<>>

(***************************************************************************)
(* C18: for createMemo(when(every(a, b, c), cb)) over signals of a host    *)
(* that runs the computation again only when a signal read on its last     *)
(* run changes: once the host has run what is due, the memo's value is     *)
(* cb([a, b, c]) when the three current values are truthy and undefined    *)
(* otherwise, although a run stops reading at the first falsy input.       *)
(***************************************************************************)
C18_MemoOverConjunction ==
    LET c == inst[1] IN
    (c.status = "active" /\ ~c.pending) =>
       c.value =
          IF \A s \in SigNames : sig[s] \notin FalsySet
          THEN UserBody(c.given[2].s, <<Arr(<<sig["a"], sig["b"], sig["c"]>>)>>)[2]
          ELSE Undefined

\* The memo ran again and holds the tuple; its last run read the three signals.
C18_Witness ==
    /\ inst[1].status = "active"
    /\ ~inst[1].pending
    /\ inst[1].runs = 3
    /\ inst[1].given[2] = Fn("cb_id")
    /\ inst[1].deps = {"a", "b", "c"}
    /\ inst[1].value = Arr(<<Num(5), Str("x"), Num(5)>>)

\* b and c are truthy and were never read: the memo depends on a alone.
C18_ShortCircuitLeavesUnread ==
    /\ inst[1].status = "active"
    /\ ~inst[1].pending
    /\ inst[1].deps = {"a"}
    /\ sig["a"] = Null /\ sig["b"] = Num(5) /\ sig["c"] = Str("x")
    /\ inst[1].value = Undefined

(***************************************************************************)
(* C19: whenMemo does not create the underlying memo until it is needed:   *)
(* while the input is falsy no memo of the host exists for the whenMemo    *)
(* call; the memo exists only once the input has been truthy.              *)
(***************************************************************************)
C19_NoMemoUntilTruthy ==
    (inst[1].status = "active" /\ inst[1].kind = "memo") =>
       \E k \in 1..Len(obs.ins) : obs.ins[k] \notin FalsySet

\* whenMemo was called while a held null: the host's memo exists and has run
\* its compute function once.
C19_MemoExistsWhileFalsy ==
    /\ inst[1].status = "active"
    /\ inst[1].kind = "memo"
    /\ obs.ins = <<Null>>
    /\ inst[1].runs = 1
    /\ inst[1].deps = {"a"}
    /\ inst[1].value = Undefined

(***************************************************************************)
(* C20: the value of a whenMemo updates only when the condition is truthy: *)
(* a run on which the input resolves falsy leaves the value read from the  *)
(* memo as it was.                                                         *)
(***************************************************************************)
C20_FalsyRunKeepsValue ==
    inst[1].kind = "memo" =>
       \A k \in 2..Len(obs.runs) :
          obs.ins[k] \in FalsySet => obs.runs[k].value = obs.runs[k - 1].value

\* The memo held 10; the run for null, with no fallback, leaves undefined.
C20_FalsyRunResets ==
    /\ inst[1].kind = "memo"
    /\ inst[1].given = <<Fn("a"), Fn("cb_double"), Undefined>>
    /\ obs.ins = <<Num(5), Null>>
    /\ Len(obs.runs) = 2
    /\ obs.runs[1].value = Num(10)
    /\ obs.runs[2].value = Undefined
    /\ inst[1].value = Undefined

(***************************************************************************)
(* C21: reading a whenMemo's handle executes no branch: between two        *)
(* changes of the input every read returns the value of the last run and   *)
(* the execution counts of callback and fallback stay what the runs made   *)
(* them.                                                                   *)
(***************************************************************************)
RunsOf(branch) == Cardinality({k \in 1..Len(obs.runs) : obs.runs[k].ran = branch})

C21_ReadRunsNothing ==
    (inst[1].status = "active" /\ inst[1].kind = "memo" /\ obs.read # <<>>) =>
       /\ obs.read = <<obs.runs[Len(obs.runs)].value>>
       /\ obs.cb = RunsOf("cb")
       /\ obs.fb = RunsOf("fb")

\* The memo was read after its second run: 10 comes back, one callback and
\* one fallback execution are counted.
C21_Witness ==
    /\ inst[1].kind = "memo"
    /\ inst[1].given = <<Fn("a"), Fn("cb_double"), Fn("fb_m1")>>
    /\ obs.ins = <<Null, Num(5)>>
    /\ obs.read = <<Num(10)>>
    /\ obs.cb = 1
    /\ obs.fb = 1

(***************************************************************************)
(* C22: a whenRenderEffect's branch runs before the branch of a whenEffect *)
(* created in the same root, whichever was created first: right after the  *)
(* two have been created on a truthy input, the render effect's callback   *)
(* has run and the effect's has not.                                       *)
(***************************************************************************)
C22_RenderEffectFirst ==
    \A i, j \in Insts :
       (given.op = "root" /\ given.in[i] = Str("whenRenderEffect")
           /\ given.in[j] = Str("whenEffect")) =>
          /\ Len(obs.order) >= 1
          /\ obs.order[1].id = i
          /\ obs.ins[1] \notin FalsySet => obs.order[1].ran = "cb"
          /\ Len(obs.order) = 1 => (inst[j].runs = 0 /\ inst[j].after = NoBranch)

\* The effect was created first: only the render effect's callback has run.
C22_Witness ==
    /\ given.op = "root"
    /\ given.in = <<Str("whenEffect"), Str("whenRenderEffect")>>
    /\ inst[1].status = "active" /\ inst[1].kind = "effect"
    /\ inst[2].status = "active" /\ inst[2].kind = "render"
    /\ obs.ins = <<Num(5)>>
    /\ obs.order = <<[id |-> 2, ran |-> "cb"]>>
    /\ inst[1].runs = 0
    /\ inst[1].pending

(***************************************************************************)
(* C23: disposed is a terminal state of an adapted instance: once the host *)
(* has torn down the computation, no later change of the input runs the    *)
(* gated function, the callback or the fallback, and the instance stays    *)
(* disposed.                                                               *)
(***************************************************************************)
C23_DisposedIsTerminal ==
    [][\A i \in Insts :
          inst[i].status = "disposed" =>
             /\ inst'[i].status = "disposed"
             /\ inst'[i].runs = inst[i].runs
             /\ inst'[i].value = inst[i].value
             /\ inst'[i].r = NoRun
             /\ ~inst'[i].pending]_vars

\* The instance ran once on a = 5 and was torn down; a now holds 'x'.
C23_Witness ==
    /\ inst[1].status = "disposed"
    /\ inst[1].given[1] = Fn("a")
    /\ inst[1].given[2] = Fn("cb_id")
    /\ inst[1].runs = 1
    /\ inst[1].value = Num(5)
    /\ sig["a"] = Str("x")

(***************************************************************************)
(* C24: for whenMemo(user, u => check(() => isAdmin(u), when(feature, g))) *)
(* after any changes of user and feature, once the host has run what is    *)
(* due, the memo's value is g's result on the current feature exactly when *)
(* user is truthy, isAdmin(user) is truthy and feature is truthy, and      *)
(* undefined in every other case.                                          *)
(***************************************************************************)
C24_NestedComposition ==
    LET c == inst[1] IN
    (c.status = "active" /\ ~c.pending) =>
       c.value =
          IF sig["a"] = AdminUser /\ sig["b"] \notin FalsySet
          THEN (IF sig["b"] = FeatureOn THEN Str("Admin with feature")
                ELSE Str("Admin without feature"))
          ELSE Undefined

\* The memo has run three times and follows the feature that is now off.
C24_Witness ==
    /\ inst[1].status = "active"
    /\ ~inst[1].pending
    /\ inst[1].runs = 3
    /\ inst[1].deps = {"a", "b"}
    /\ sig["a"] = AdminUser
    /\ sig["b"] = FeatureOff
    /\ inst[1].value = Str("Admin without feature")

(***************************************************************************)
(* C25: resolution is one dispatch on callability: an input that is a      *)
(* function is invoked, once and with no arguments, and its result is what *)
(* is tested and passed on; an input that is not a function is used as it  *)
(* is; a function returned by a producer is not invoked in turn but is a   *)
(* truthy value.                                                           *)
(***************************************************************************)
\* What resolving x once must give: the value and the number of invocations.
ResolvedOnce(x, val, ev) ==
    LET invoked == SelectSeq(ev, IsProducerCall) IN
    IF x.type = "function"
    THEN /\ Len(invoked) = 1
         /\ invoked[1].f = x.s
         /\ invoked[1].args = <<>>
         /\ val = invoked[1].val
         /\ val = Denotes(x)
    ELSE /\ invoked = <<>>
         /\ val = x

C25_SingleDispatch ==
    /\ ((LastCheck \/ LastGated) /\ ~Throws(LastAccessor)) =>
          LET ev == last.r.ev
              res == SelectSeq(ev, LAMBDA e : e.e = "resolved")
          IN /\ Len(res) = 1
             /\ ResolvedOnce(LastAccessor, res[1].val, ev)
             /\ res[1].val.type = "function" =>
                   /\ Len(CallbackCalls(last.r)) = 1
                   /\ CallbackCalls(last.r)[1].args[1] = res[1].val
                   /\ FallbackCalls(last.r) = <<>>
    /\ LastEvery =>
          LET res == SelectSeq(last.r.ev, IsEveryResolved) IN
          /\ Len(SelectSeq(last.r.ev, IsProducerCall))
                = Len(SelectSeq(SubSeq(given.in, 1, Len(res)), IsProducer))
          /\ \A k \in 1..Len(res) : res[k].val = Denotes(given.in[k])

\* The producer returns the throwing accessor: it is not invoked, nothing is
\* thrown, and the callback receives it as a value.
C25_Witness ==
    /\ LastGated
    /\ given.in = <<Thunk(Fn("thrower")), Fn("cb_id"), Fn("fb_m1")>>
    /\ last.r.st = "ok"
    /\ last.r.val = Fn("thrower")
    /\ Len(SelectSeq(last.r.ev, IsProducerCall)) = 1

(***************************************************************************)
(* C26: when a branch throws during invocation N of an adapted instance,   *)
(* the previous result is not updated by that invocation and the branch is *)
(* not retried: the next invocation receives as `previous` the result of   *)
(* the last invocation that completed.                                     *)
(***************************************************************************)
\* The result of the last invocation before run k that completed; undefined,
\* the initial previous, if there is none.
LastCompletedBefore(k) ==
    LET done == {j \in 1..(k - 1) : obs.runs[j].out # "throw"} IN
    IF done = {} THEN Undefined
    ELSE LET j == CHOOSE j \in done : \A i \in done : i <= j IN
         IF obs.runs[j].ran = "none" THEN Undefined ELSE obs.runs[j].ret

C26_ThrowKeepsPrevious ==
    /\ \A k \in 1..Len(obs.runs) :
          /\ obs.runs[k].out = "throw" => obs.runs[k].value = LastCompletedBefore(k)
          /\ (k >= 2 /\ obs.runs[k - 1].out = "throw" /\ obs.runs[k].ran # "none") =>
                obs.runs[k].prev = LastCompletedBefore(k)
    /\ Len(obs.runs) <= Len(obs.ins)
    /\ obs.cb + obs.fb = Cardinality({k \in 1..Len(obs.runs) : obs.runs[k].ran # "none"})

\* The fallback returned -1, the callback threw on 5, and the fallback run
\* after it receives -1.
C26_Witness ==
    /\ inst[1].kind = "effect"
    /\ inst[1].given = <<Fn("a"), Fn("cb_throw"), Fn("fb_m1")>>
    /\ obs.ins = <<Null, Num(5), Num(0)>>
    /\ Len(obs.runs) = 3
    /\ obs.runs[1].ret = Num(-1)
    /\ obs.runs[2].out = "throw"
    /\ obs.runs[2].value = Num(-1)
    /\ obs.runs[3].ran = "fb"
    /\ obs.runs[3].prev = Num(-1)

(***************************************************************************)
(* C27: two successive calls of one every producer build two separate      *)
(* tuples, each from the inputs' values at its call: a call returns        *)
(* undefined exactly when an input is falsy, and otherwise an array that   *)
(* no earlier call returned, holding the inputs' current values whatever   *)
(* the caller wrote into the earlier tuples, which the call leaves as they *)
(* were.                                                                   *)
(***************************************************************************)
C27_TuplesAreSeparate ==
    [][(given.op = "every" /\ Len(obs'.refs) = Len(obs.refs) + 1) =>
          LET new == obs'.refs[Len(obs'.refs)]
              old == {obs.refs[j] : j \in 1..Len(obs.refs)} \ {0}
          IN /\ (new = 0) <=>
                   (\E k \in 1..Len(given.in) : Denotes(given.in[k]) \in FalsySet)
             /\ new # 0 =>
                   /\ new \notin old
                   /\ obs'.heap[new] = [k \in 1..Len(given.in) |-> Denotes(given.in[k])]
             /\ \A id \in old : obs'.heap[id] = obs.heap[id]]_vars

\* The caller overwrote the first element of the first tuple, a was written,
\* and the second call returned a new tuple with the new value.
C27_Witness ==
    /\ given.op = "every"
    /\ given.in = <<Fn("a"), Fn("b")>>
    /\ obs.refs = <<1, 2>>
    /\ obs.heap[1] = <<Str("mutated"), Str("x")>>
    /\ obs.heap[2] = <<Str("x"), Str("x")>>
    /\ sig["a"] = Str("x")

(***************************************************************************)
(* C28: a producer input is invoked exactly once per call of check and per *)
(* call of a gated function: the value tested for truthiness is the value  *)
(* that invocation returned and the very value passed to the callback,     *)
(* even when the producer would return another value if invoked again.     *)
(***************************************************************************)
C28_ProducerInvokedOnce ==
    ((LastCheck \/ LastGated) /\ IsProducer(LastAccessor)) =>
       LET ev == last.r.ev
           invoked == SelectSeq(ev, IsProducerCall)
           tested == SelectSeq(ev, LAMBDA e : e.e = "resolved")
           cbs == CallbackCalls(last.r)
           fbs == FallbackCalls(last.r)
       IN /\ Len(invoked) = 1
          /\ invoked[1].f = LastAccessor.s
          /\ invoked[1].args = <<>>
          /\ (LastCheck /\ LastAccessor.s = "cycle") => invoked[1].val = LastAccessor.cl[1]
          /\ Len(tested) = 1
          /\ tested[1].val = invoked[1].val
          /\ invoked[1].val \notin FalsySet =>
                /\ Len(cbs) = 1
                /\ cbs[1].args = <<invoked[1].val>> \o LastExtra
                /\ fbs = <<>>
                /\ IsResultOf(last.r, cbs[1])
          /\ invoked[1].val \in FalsySet =>
                /\ cbs = <<>>
                /\ Len(fbs) = (IF LastFallback = Undefined THEN 0 ELSE 1)

\* The producer returned 5 and would return null now: the callback ran on 5.
C28_Witness ==
    /\ LastGated
    /\ given.in = <<Cycle(<<Num(5), Null>>), Fn("cb_double"), Fn("fb_m1")>>
    /\ gate.cl[1] = Cycle(<<Null, Num(5)>>)
    /\ last.args = <<Num(7)>>
    /\ last.r.val = Num(10)
    /\ Len(SelectSeq(last.r.ev, IsCycleRead)) = 1

(***************************************************************************)
(* C29: constructing a gate or a conjunction is inert: when(input, cb, fb) *)
(* and every(i1..in) return a function without resolving any input or      *)
(* invoking cb or fb, even when the input or a branch would throw; inputs  *)
(* are resolved and branches run only by a call of the returned function,  *)
(* which resolves the input then.                                          *)
(***************************************************************************)
C29_ConstructionIsInert ==
    /\ last.op \in {"when", "every"} =>
          /\ last.r.st = "ok"
          /\ last.r.ev = <<>>
          /\ last.r.val.type = "function"
          /\ gate = last.r.val
    /\ last.r.ev # <<>> => last.op = "call"
    /\ (LastGated /\ IsProducer(given.in[1])) =>
          /\ Len(SelectSeq(last.r.ev, IsProducerCall)) = 1
          /\ Throws(given.in[1]) => last.r.st = "throw"
          /\ ~Throws(given.in[1]) =>
                Len(BranchCalls(last.r)) =
                   (IF Denotes(given.in[1]) \in FalsySet /\ given.in[3] = Undefined
                    THEN 0 ELSE 1)
    /\ (LastEvery /\ given.in # <<>> /\ IsProducer(given.in[1])) =>
          Len(SelectSeq(last.r.ev, IsProducerCall)) >= 1

\* A gate was built over a producer and branches that throw, and nothing ran.
C29_Witness ==
    /\ last.op = "when"
    /\ last.args = <<Fn("thrower"), Fn("cb_throw"), Fn("fb_throw")>>
    /\ last.r = Ok(when(Fn("thrower"), Fn("cb_throw"), Fn("fb_throw")), <<>>)
    /\ gate.type = "function"

(***************************************************************************)
(* C30: the adapter keeps no state of its own: in every invocation the     *)
(* callback receives the resolved value followed by exactly the arguments  *)
(* the host passed to the compute function and the fallback exactly those  *)
(* arguments (none when the host passes none), and of two instances made   *)
(* by the same adapted constructor an invocation of one leaves the value   *)
(* the host keeps for the other, its next `previous`, unchanged.           *)
(***************************************************************************)
\* The arguments a branch must receive when the host passed args.
BranchArgs(r, args) ==
    LET e == BranchCalls(r)[1]
        res == SelectSeq(r.ev, LAMBDA x : x.e = "resolved" /\ x.f = "check")
    IN IF IsCallbackCall(e) THEN <<res[1].val>> \o args ELSE args

C30_AdapterKeepsNoState ==
    [][/\ \A i \in Insts :
             inst'[i].runs = inst[i].runs + 1 =>
                /\ Len(BranchCalls(inst'[i].r)) <= 1
                /\ BranchCalls(inst'[i].r) # <<>> =>
                      BranchCalls(inst'[i].r)[1].args
                         = BranchArgs(inst'[i].r, <<inst[i].value>>)
                /\ \A j \in Insts \ {i} :
                      /\ inst'[j].value = inst[j].value
                      /\ inst'[j].runs = inst[j].runs
       /\ (last'.op = "whenify" /\ last.op # "whenify" /\ last'.fn = Fn("mock_call")) =>
             /\ Len(BranchCalls(last'.r)) <= 1
             /\ BranchCalls(last'.r) # <<>> =>
                   BranchCalls(last'.r)[1].args = BranchArgs(last'.r, <<>>)]_vars

\* Two memos of one constructor: the first holds 10, and the callback of the
\* second received its own previous result -1 with the value 7.
C30_Witness ==
    /\ inst[1].status = "active" /\ inst[2].status = "active"
    /\ inst[1].kind = "memo" /\ inst[2].kind = "memo"
    /\ inst[1].given = <<Fn("a"), Fn("cb_double"), Fn("fb_m1")>>
    /\ inst[2].given = <<Fn("b"), Fn("cb_id"), Fn("fb_m1")>>
    /\ inst[1].value = Num(10)
    /\ inst[2].value = Num(7)
    /\ Len(CallbackCalls(inst[2].r)) = 1
    /\ CallbackCalls(inst[2].r)[1].args = <<Num(7), Num(-1)>>

\* The adapter over fn => fn(): the fallback ran with no argument at all.
C30_HostPassesNone ==
    /\ last.op = "whenify"
    /\ last.fn = Fn("mock_call")
    /\ Len(FallbackCalls(last.r)) = 1
    /\ FallbackCalls(last.r)[1].args = <<>>
    /\ last.r.val = Num(-1)

====
